---- MODULE Spec2Model ----
(***************************************************************************)
(* Quantum Business Simulator: the BigQuery AI wrapper (lib/bigquery.ts),  *)
(* the scenario engine (lib/ai-engine.ts) and the API routes               *)
(* (app/api/scenarios, app/api/forecast, app/api/vector-search).           *)
(*                                                                         *)
(* The remote BigQuery service is the environment: the outcome of every    *)
(* remote statement (success with rows, or an error) is a nondeterministic *)
(* input of the step that awaits it.  Math.random and the clock are left   *)
(* out: numeric fields of a timeline point are abstracted to where the     *)
(* value comes from (growth profile or AI estimate).                       *)
(***************************************************************************)
EXTENDS Integers, Sequences, FiniteSets, TLC

VARIABLES
    env,        \* process.env: which of the two required variables are set
    pc,         \* position of the request being served
    req,        \* the request being served
    resp,       \* the response of the route (status 0: none yet)
    textClass,  \* generateScenarios: how the main generateText call ended
    raw,        \* generateScenarios: rawScenarios parsed from the AI text
    idx,        \* generateScenarios: loop index i (0-based)
    scenarios,  \* generateScenarios: scenarios pushed so far
    cur,        \* generateScenarios: parts of the scenario being built
    forecasts,  \* forecast route: per-variation result of the Promise.all
    invoked,    \* names of the functions invoked while serving this request
    remoteErrs, \* error codes the remote service answered in this request
    calls,      \* BigQueryAI: the (function, arguments) pairs invoked so far
    lastCall,   \* BigQueryAI: the latest direct invocation and what it sent
    params,     \* vector-search GET: the query parameters of the request
    metadata,   \* forecast route: data.metadata of the response
    page        \* simulator page: React state, rendered form, submissions

vars == <<env, pc, req, resp, textClass, raw, idx, scenarios, cur, forecasts,
          invoked, remoteErrs, calls, lastCall, params, metadata, page>>

routeVars == <<pc, req, resp, textClass, raw, idx, scenarios, cur, forecasts,
               invoked, remoteErrs, params, metadata>>

----------------------------------------------------------------------------
(* Bounds of the model *)

MaxRaw == 3             \* longest JSON array / row set the remote returns
MaxScenarioCount == 4   \* largest options.scenarioCount of a request
MaxVariations == 2      \* longest variations array of a forecast request
ShortHorizon == 6       \* a timeHorizon shorter than the default
MaxLimit == 6           \* largest limit of a vector-search request
MaxSubmissions == 3     \* submissions made on the simulator page

(* Program constants *)

DefaultScenarioCount == 3
DefaultTimeHorizon == 12
DefaultLimit == 5
MockMonths == 12

----------------------------------------------------------------------------
(* Small helpers *)

Min(a, b) == IF a < b THEN a ELSE b

Range(s) == {s[i] : i \in 1..Len(s)}

----------------------------------------------------------------------------
(* JavaScript values of a field read from JSON: undefined (absent), null, *)
(* an integer number, NaN, or a string (a sequence of characters)          *)
Undefined == [kind |-> "undefined", num |-> 0, text |-> <<>>]

Null == [kind |-> "null", num |-> 0, text |-> <<>>]

NaN == [kind |-> "NaN", num |-> 0, text |-> <<>>]

Num(n) == [kind |-> "number", num |-> n, text |-> <<>>]

Str(t) == [kind |-> "string", num |-> 0, text |-> t]

DigitChars == {"0", "1", "2", "3", "5"}

DigitVal(c) == CASE c = "0" -> 0 [] c = "1" -> 1 [] c = "2" -> 2 [] c = "3" -> 3 [] c = "5" -> 5

Pow10(n) == IF n = 0 THEN 1 ELSE IF n = 1 THEN 10 ELSE IF n = 2 THEN 100 ELSE 1000

RECURSIVE DigitsEnd(_, _)
(* the index of the last character of the run of digits starting at from   *)
(* (from - 1 when there is none)                                           *)
DigitsEnd(text, from) ==
    IF from <= Len(text) /\ text[from] \in DigitChars THEN DigitsEnd(text, from + 1)
    ELSE from - 1

RECURSIVE DigitsValue(_, _, _)
(* the decimal value of text[from..to], all digits *)
DigitsValue(text, from, to) ==
    IF to < from THEN 0 ELSE 10 * DigitsValue(text, from, to - 1) + DigitVal(text[to])

HasSign(text, at) == at <= Len(text) /\ text[at] = "-"

(* parseInt(text): an optional sign and the longest run of digits that     *)
(* follows; whatever comes after is ignored; NaN when there is no digit    *)
parseInt(text) ==
    IF DigitsEnd(text, IF HasSign(text, 1) THEN 2 ELSE 1) < (IF HasSign(text, 1) THEN 2 ELSE 1)
    THEN NaN
    ELSE Num((IF HasSign(text, 1) THEN -1 ELSE 1)
             * DigitsValue(text, IF HasSign(text, 1) THEN 2 ELSE 1,
                           DigitsEnd(text, IF HasSign(text, 1) THEN 2 ELSE 1)))

(* the magnitude of mantissa * 10^exponent, truncated to an integer *)
Scale(mantissa, negExp, exp) ==
    IF negExp THEN mantissa \div Pow10(Min(exp, 3)) ELSE mantissa * Pow10(Min(exp, 3))

(* ToNumber(text) truncated to an integer, for a text that starts at from  *)
(* with a digit run ending at m: the whole text must be digits, optionally *)
(* followed by e, an optional sign and digits                              *)
UnsignedToNumber(text, from, m) ==
    IF m < from THEN NaN
    ELSE IF m = Len(text) THEN Num(DigitsValue(text, from, m))
    ELSE IF text[m + 1] # "e" THEN NaN
    ELSE IF DigitsEnd(text, IF HasSign(text, m + 2) THEN m + 3 ELSE m + 2) # Len(text)
            \/ Len(text) < (IF HasSign(text, m + 2) THEN m + 3 ELSE m + 2)
    THEN NaN
    ELSE Num(Scale(DigitsValue(text, from, m), HasSign(text, m + 2),
                   DigitsValue(text, IF HasSign(text, m + 2) THEN m + 3 ELSE m + 2, Len(text))))

(* ToNumber(text), truncated: the empty string is 0 *)
StringToNumber(text) ==
    IF Len(text) = 0 THEN Num(0)
    ELSE IF HasSign(text, 1)
    THEN IF UnsignedToNumber(text, 2, DigitsEnd(text, 2)).kind = "NaN" THEN NaN
         ELSE Num(-UnsignedToNumber(text, 2, DigitsEnd(text, 2)).num)
    ELSE UnsignedToNumber(text, 1, DigitsEnd(text, 1))

(* ToIntegerOrInfinity(v): NaN, null and text that is no number give 0 *)
ToIntegerOrInfinity(v) ==
    IF v.kind = "number" THEN v.num
    ELSE IF v.kind = "string" THEN StringToNumber(v.text).num
    ELSE 0

----------------------------------------------------------------------------
(* Arithmetic.  Amounts are integers, rates and factors are in percent     *)
(* (118 is 1.18) and market shares in millionths (300000 is 0.3).          *)

RECURSIVE Grow(_, _, _)
(* v * Math.pow(rate, k), the product being truncated at every step *)
Grow(v, rate, k) == IF k = 0 THEN v ELSE Grow((v * rate) \div 100, rate, k - 1)

(* Math.round(v * pct / 100) for v >= 0 *)
RoundPct(v, pct) == (v * pct + 50) \div 100

(* v as a number: text that is no numeric literal and undefined give NaN *)
ToNumber(v) ==
    IF v.kind = "number" THEN v
    ELSE IF v.kind = "string" THEN StringToNumber(v.text)
    ELSE IF v.kind = "null" THEN Num(0)
    ELSE NaN

(* a JavaScript value is truthy unless it is undefined, null, NaN, 0 or "" *)
Truthy(v) ==
    \/ v.kind = "number" /\ v.num # 0
    \/ v.kind = "string" /\ v.text # <<>>

(* Math.min(v, cap): NaN when v is not a number *)
MathMin(v, cap) == IF ToNumber(v).kind = "NaN" THEN NaN ELSE Num(Min(ToNumber(v).num, cap))

(* v * Math.pow(rate, k): NaN when v is not a number *)
Times(v, rate, k) ==
    IF ToNumber(v).kind = "NaN" THEN NaN ELSE Num(Grow(ToNumber(v).num, rate, k))

----------------------------------------------------------------------------
(* Exceptions and completion records.  An async function either resolves   *)
(* with a value or rejects with an exception; sent lists the remote        *)
(* statements it issued, errs the error codes the remote answered.         *)

NoErr == [cls |-> "none", code |-> "none"]

BigQueryAIError(code) == [cls |-> "BigQueryAIError", code |-> code]

RateLimitError == BigQueryAIError("RATE_LIMIT_EXCEEDED")

QuotaExceededError == BigQueryAIError("QUOTA_EXCEEDED")

PlainError == [cls |-> "Error", code |-> "none"]

TypeError == [cls |-> "TypeError", code |-> "none"]

SyntaxError == [cls |-> "SyntaxError", code |-> "none"]

Ok(v, sent, errs) == [ok |-> TRUE, val |-> v, err |-> NoErr, sent |-> sent, errs |-> errs]

Throw(e, sent, errs) == [ok |-> FALSE, val |-> <<>>, err |-> e, sent |-> sent, errs |-> errs]

----------------------------------------------------------------------------
(* The remote service.  A remote error carries a numeric code (0: none)    *)
(* and a message, modelled by the marker substrings it contains.           *)

RemoteError(code, marks) == [code |-> code, marks |-> marks]

E429 == RemoteError(429, {})

E403Quota == RemoteError(403, {"quota"})

E403Connection == RemoteError(403, {"bigquery.connections.use"})

E500 == RemoteError(500, {})

ENoCode == RemoteError(0, {})

NoRemoteError == RemoteError(-1, {})

RemoteErrors == {E429, E403Quota, E403Connection, E500, ENoCode}

Failed(e) == [ok |-> FALSE, error |-> e, rows |-> <<>>]

Answered(rows) == [ok |-> TRUE, error |-> NoRemoteError, rows |-> rows]

(* Outcomes of a statement that returns no rows of interest (CREATE MODEL) *)
StatementOutcomes == {Answered(<<>>)} \cup {Failed(e) : e \in {E403Connection, E500}}

ErrCodes(outcome) == IF outcome.ok THEN {} ELSE {outcome.error.code}

----------------------------------------------------------------------------
(* JSON values the remote model can produce.  An item is one JSON value    *)
(* used as an element: null, a number, or an object with the fields the    *)
(* program reads ("" and 0 stand for an absent field).                     *)

Item(kind, id, title, rev) ==
    [kind |-> kind, scenario_id |-> id, title |-> title, revenue_estimate |-> rev,
     market_share_estimate |-> Undefined, confidence |-> Undefined]

NullItem == Item("null", "", "", 0)

NumberItem == Item("number", "", "", 0)

(* A confidence is kept in thousandths (855 is 0.855) when it is a number.  *)
(* A scenario object either has a scenario_id and the confidence 0.855, or *)
(* lacks both fields.                                                      *)
ScenarioItem(withId) ==
    [Item("object", IF withId THEN "custom_id" ELSE "", "T", 0)
        EXCEPT !.confidence = IF withId THEN Num(855) ELSE Undefined]

(* a scenario object whose confidence field holds c *)
ConfidenceItem(c) == [ScenarioItem(TRUE) EXCEPT !.confidence = c]

(* confidences off the scale the prompt asks for: 85, the text "high", -0.1 *)
OffScaleItems ==
    << ConfidenceItem(Num(85000)), ConfidenceItem(Str(<<"h", "i", "g", "h">>)),
       ConfidenceItem(Num(-100)) >>

(* What a generated forecast row estimates: the revenue (0: none) and the  *)
(* market share, in millionths when it is a number                         *)
Estimate(rev, share) == [revenue_estimate |-> rev, market_share_estimate |-> share]

NoEstimate == Estimate(0, Undefined)

ForecastRow(est) ==
    [Item("object", "", "", est.revenue_estimate)
        EXCEPT !.market_share_estimate = est.market_share_estimate]

Json(isArray, items) == [isArray |-> isArray, items |-> items]

NoJson == Json(FALSE, <<>>)

(* A text is an optional ```json fence around a body that is empty, blank, *)
(* not JSON at all, or the serialisation of a JSON value.                  *)
Text(fence, kind, json) == [fence |-> fence, kind |-> kind, json |-> json]

EmptyText == Text(FALSE, "empty", NoJson)

IsFalsyText(t) == ~t.fence /\ t.kind = "empty"

(* jsonResponse.trim().length === 0 *)
IsBlankText(t) == ~t.fence /\ t.kind \in {"empty", "blank"}

(* jsonResponse.replace(/```json\n?|\n?```/g, '').trim() is the body; it is *)
(* empty when the body holds nothing but white space                       *)
CleanedIsEmpty(t) == t.kind \in {"empty", "blank"}

(* JSON.parse(cleaned): throws a SyntaxError unless the body is JSON *)
JSONParse(t) ==
    IF t.kind = "json" THEN Ok(t.json, <<>>, {}) ELSE Throw(SyntaxError, <<>>, {})

(* Array.isArray(x) ? x : [x] *)
AsArray(json) == IF json.isArray THEN json.items ELSE <<json.items[1]>>

----------------------------------------------------------------------------
(* lib/bigquery.ts: BigQueryAI *)

validateEnvironment(e) ==
    [isValid |-> e.project /\ e.creds,
     errors  |-> (IF e.project THEN <<>> ELSE <<"GOOGLE_CLOUD_PROJECT_ID">>)
                 \o (IF e.creds THEN <<>> ELSE <<"GOOGLE_APPLICATION_CREDENTIALS_JSON">>)]

isBigQueryAIConfigured(e) == e.project /\ e.creds

(* handleError: the BigQueryAIError a failed generation query is turned into *)
handleError(error) ==
    IF error.code = 429 THEN RateLimitError
    ELSE IF error.code = 403 /\ "quota" \in error.marks THEN QuotaExceededError
    ELSE BigQueryAIError(IF error.code # 0 THEN ToString(error.code) ELSE "UNKNOWN_ERROR")

(* ensureDataset: dataset.get({autoCreate: true}); a failure is only logged *)
ensureDataset == <<"dataset.get">>

(* ensureRemoteModel: resolves with the model name (abstracted to TRUE) *)
ensureRemoteModel(e, create) ==
    IF ~isBigQueryAIConfigured(e)
    THEN Throw(BigQueryAIError("CONFIGURATION_ERROR"), <<>>, {})
    ELSE LET sent == ensureDataset \o <<"CREATE MODEL">>
         IN  IF create.ok THEN Ok(TRUE, sent, {})
             ELSE IF create.error.code = 403
                     /\ "bigquery.connections.use" \in create.error.marks
                  THEN Throw(BigQueryAIError("PERMISSION_DENIED"), sent, ErrCodes(create))
                  ELSE Ok(TRUE, sent, ErrCodes(create))

(* rows[0]?.ml_generate_text_llm_result || rows[0]?.ml_generate_text_result || '' *)
ExtractText(rows) ==
    IF Len(rows) = 0 THEN EmptyText
    ELSE IF ~IsFalsyText(rows[1].llm) THEN rows[1].llm
    ELSE IF ~IsFalsyText(rows[1].res) THEN rows[1].res
    ELSE EmptyText

(* generateText once ensureRemoteModel has settled with m: lines 41-73 *)
generateTextQuery(m, query) ==
    IF ~m.ok THEN m
    ELSE IF query.ok
    THEN Ok(ExtractText(query.rows), m.sent \o <<"ML.GENERATE_TEXT">>, m.errs)
    ELSE Throw(handleError(query.error), m.sent \o <<"ML.GENERATE_TEXT">>,
               m.errs \cup ErrCodes(query))

generateText(e, create, query) == generateTextQuery(ensureRemoteModel(e, create), query)

(* getFallbackScenarios: three hard-coded scenario rows *)
getFallbackScenarios ==
    << [Item("object", "scenario_1", "Mobile-First Aggressive Strategy", 0)
           EXCEPT !.confidence = Num(850)],
       [Item("object", "scenario_2", "Balanced Mobile-Desktop Approach", 0)
           EXCEPT !.confidence = Num(750)],
       [Item("object", "scenario_3", "Mobile-First Conservative Strategy", 0)
           EXCEPT !.confidence = Num(900)] >>

(* generateTableFallback once its generateText call has settled with t:   *)
(* lines 147-170                                                           *)
ParseTableText(t) ==
    IF ~t.ok THEN getFallbackScenarios
    ELSE IF IsFalsyText(t.val) \/ IsBlankText(t.val) THEN getFallbackScenarios
    ELSE IF CleanedIsEmpty(t.val) THEN getFallbackScenarios
    ELSE IF ~JSONParse(t.val).ok THEN getFallbackScenarios
    ELSE AsArray(JSONParse(t.val).val)

(* generateTableFallback: ML.GENERATE_TEXT plus JSON parsing; never rejects. *)
(* o.fbCreate and o.fbText are the outcomes of its two remote statements    *)
generateTableFallback(e, o) ==
    [ok |-> TRUE, val |-> ParseTableText(generateText(e, o.fbCreate, o.fbText)), err |-> NoErr,
     sent |-> generateText(e, o.fbCreate, o.fbText).sent,
     errs |-> generateText(e, o.fbCreate, o.fbText).errs]

(* generateTable once ensureRemoteModel has settled with m; f is what the  *)
(* text fallback resolves with when the query fails: lines 94-129          *)
generateTableQuery(m, table, f) ==
    IF ~m.ok THEN m
    ELSE IF table.ok
    THEN Ok(table.rows, m.sent \o <<"AI.GENERATE_TABLE">>, m.errs)
    ELSE Ok(f.val, m.sent \o <<"AI.GENERATE_TABLE">> \o f.sent,
            m.errs \cup ErrCodes(table) \cup f.errs)

(* generateTable: o.create and o.table are the outcomes of CREATE MODEL and *)
(* of the AI.GENERATE_TABLE query                                          *)
generateTable(e, o) ==
    generateTableQuery(ensureRemoteModel(e, o.create), o.table, generateTableFallback(e, o))

(* generateEmbedding once ensureRemoteModel has settled with m; the        *)
(* embedding is abstracted to its row count                                *)
generateEmbeddingQuery(m, query) ==
    IF ~m.ok THEN m
    ELSE IF query.ok
    THEN Ok(Len(query.rows), m.sent \o <<"ML.GENERATE_EMBEDDING">>, m.errs)
    ELSE Throw(handleError(query.error), m.sent \o <<"ML.GENERATE_EMBEDDING">>,
               m.errs \cup ErrCodes(query))

generateEmbedding(e, create, query) ==
    generateEmbeddingQuery(ensureRemoteModel(e, create), query)

executeQuery(query) ==
    IF query.ok THEN Ok(query.rows, <<"SQL">>, {})
    ELSE Throw(handleError(query.error), <<"SQL">>, ErrCodes(query))

----------------------------------------------------------------------------
(* What the remote service may answer *)

ItemsOf(n, withId) == [i \in 1..n |-> ScenarioItem(withId)]

(* JSON values a text generation may carry: arrays of 0..MaxRaw scenario   *)
(* objects with a scenario_id, an array of objects without one, an array   *)
(* holding null, a single object, null, a number, and an array of objects  *)
(* with confidences off the scale                                          *)
JsonSamples ==
    {Json(TRUE, ItemsOf(n, TRUE)) : n \in 0..MaxRaw}
    \cup {Json(TRUE, ItemsOf(2, FALSE)),
          Json(TRUE, OffScaleItems),
          Json(TRUE, <<ScenarioItem(TRUE), NullItem>>),
          Json(FALSE, <<ScenarioItem(FALSE)>>),
          Json(FALSE, <<NullItem>>),
          Json(FALSE, <<NumberItem>>)}

TextSamples ==
    {Text(f, k, NoJson) : f \in BOOLEAN, k \in {"empty", "blank", "garbage"}}
    \cup {Text(f, "json", j) : f \in BOOLEAN, j \in JsonSamples}

TextRow(llm, res) == [llm |-> llm, res |-> res]

(* Outcomes of the main ML.GENERATE_TEXT query: an error, no row, or one   *)
(* row with the text in either result column                               *)
TextOutcomes ==
    {Failed(e) : e \in RemoteErrors}
    \cup {Answered(<<>>)}
    \cup {Answered(<<TextRow(t, EmptyText)>>) : t \in TextSamples}
    \cup {Answered(<<TextRow(EmptyText, Text(FALSE, "json", Json(TRUE, ItemsOf(1, TRUE))))>>)}

(* Outcomes of a text query whose text is not parsed (risks, insights) *)
PlainTextOutcomes ==
    {Failed(E429), Answered(<<TextRow(Text(FALSE, "garbage", NoJson), EmptyText)>>)}

Rows(n, rev) == [i \in 1..n |-> ForecastRow(rev)]

(* Outcomes of the text query generateTableFallback falls back to: an      *)
(* error, text that is not JSON, a fenced array of rows, a single object   *)
FallbackTextOutcomes(rev) ==
    {Failed(E500),
     Answered(<<TextRow(Text(FALSE, "garbage", NoJson), EmptyText)>>),
     Answered(<<TextRow(Text(TRUE, "json", Json(TRUE, Rows(2, rev))), EmptyText)>>),
     Answered(<<TextRow(Text(FALSE, "json", Json(FALSE, <<ForecastRow(rev)>>)), EmptyText)>>)}

(* The remote outcomes of one generateTable call: CREATE MODEL, the        *)
(* AI.GENERATE_TABLE query (an error, or n rows), and the statements of    *)
(* the text fallback                                                       *)
TableOracles(n, rev) ==
    [create : {Answered(<<>>), Failed(E403Connection)},
     table : {Failed(E429), Failed(E500), Answered(Rows(n, rev))},
     fbCreate : {Answered(<<>>)}, fbText : FallbackTextOutcomes(rev)]

(* The outcomes of the generateTable call of the financial projections *)
DetailOracles ==
    {o \in TableOracles(2, NoEstimate) : o.create.ok /\ o.table # Failed(E429)
                                /\ o.fbText = Failed(E500)}

EmbeddingOutcomes == {Failed(E429), Failed(E500), Answered(<<>>), Answered(<<1>>)}

SqlOutcomes == {Failed(E429), Answered(<<1, 2>>)}

----------------------------------------------------------------------------
(* Timelines.  A point keeps its month number (0: none), the growth profile *)
(* its curve was computed from and where its revenue, market share,        *)
(* customer count and probability come from: the curve, a generated row,   *)
(* or the AI estimate blended over the curve.                              *)

Point(month, profile, from) == [month |-> month, profile |-> profile, valuesFrom |-> from]

(* lib/ai-engine.ts: QuantumAIEngine *)

MockShareCap == 250000

(* a point of a mock timeline: its market share starts at base and grows   *)
(* by rate every month, capped at 25%                                      *)
MockPoint(i, profile, base, rate) ==
    [month |-> i, profile |-> profile, valuesFrom |-> "curve",
     marketShare |-> MathMin(Num(Grow(base, rate, i - 1)), MockShareCap)]

generateMockTimeline == [i \in 1..MockMonths |-> MockPoint(i, "steady", 20000, 108)]

generateMockTimelineWithProfile(profile) ==
    [i \in 1..MockMonths |->
        MockPoint(i, profile,
                  IF profile = "aggressive" THEN 30000 ELSE IF profile = "slow" THEN 10000
                  ELSE 20000,
                  IF profile = "aggressive" THEN 112 ELSE IF profile = "slow" THEN 104
                  ELSE 108)]

Scenario(id, title, confidence, timeline) ==
    [id |-> id, title |-> title, confidence |-> confidence, timeline |-> timeline]

(* generateFallbackScenarios: always the same three scenarios; count is unused *)
generateFallbackScenarios(query, count) ==
    << Scenario("scenario_1", "Aggressive Growth Strategy", Num(85),
                generateMockTimelineWithProfile("aggressive")),
       Scenario("scenario_2", "Balanced Approach", Num(92),
                generateMockTimelineWithProfile("steady")),
       Scenario("scenario_3", "Conservative Strategy", Num(78),
                generateMockTimelineWithProfile("slow")) >>

(* a property read on null throws a TypeError; on a number it is undefined *)
ReadThrows(item) == item.kind = "null"

(* timelineData.map(point => ...): one point per generated row *)
TimelineFromRows(rows) ==
    IF \E i \in 1..Len(rows) : ReadThrows(rows[i])
    THEN Throw(TypeError, <<>>, {})
    ELSE Ok([i \in 1..Len(rows) |-> Point(0, "none", "row")], <<>>, {})

(* generateTimeline once the analytics query has settled with real and    *)
(* generateTable with t (not called when real rejected or the scenario is  *)
(* null): every failure ends in the mock timeline                          *)
TimelineOf(scenario, real, t) ==
    IF ~real.ok \/ ReadThrows(scenario)
    THEN Ok(generateMockTimeline, real.sent, real.errs)
    ELSE IF ~t.ok \/ ~TimelineFromRows(t.val).ok
    THEN Ok(generateMockTimeline, real.sent \o t.sent, real.errs \cup t.errs)
    ELSE Ok(TimelineFromRows(t.val).val, real.sent \o t.sent, real.errs \cup t.errs)

(* generateTimeline: sql is the outcome of the analytics query issued for  *)
(* the ecommerce and technology industries, o those of generateTable.      *)
(* It never rejects.                                                       *)
generateTimeline(scenario, industry, e, sql, o) ==
    TimelineOf(scenario,
               IF industry \in {"ecommerce", "technology"} THEN executeQuery(sql)
               ELSE Ok(<<>>, <<>>, {}),
               generateTable(e, o))

(* the projections once generateTable has settled with t *)
ProjectionsOf(t) ==
    IF ~t.ok \/ \E i \in 1..Len(t.val) : ReadThrows(t.val[i])
    THEN Ok("mock", t.sent, t.errs)
    ELSE Ok("ai", t.sent, t.errs)

(* generateFinancialProjections: the prompt is built outside the try block, *)
(* so a null scenario rejects; any later failure yields the mock projections *)
generateFinancialProjections(scenario, e, o) ==
    IF ReadThrows(scenario) THEN Throw(TypeError, <<>>, {})
    ELSE ProjectionsOf(generateTable(e, o))

(* a text-based part once generateText has settled with t *)
TextPartOf(t, fallback) == Ok(IF t.ok THEN "ai" ELSE fallback, t.sent, t.errs)

generateRiskAssessment(scenario, e, create, query) ==
    IF ReadThrows(scenario) THEN Throw(TypeError, <<>>, {})
    ELSE TextPartOf(generateText(e, create, query), "mock")

generateKeyInsights(scenario, e, create, query) ==
    IF ReadThrows(scenario) THEN Throw(TypeError, <<>>, {})
    ELSE TextPartOf(generateText(e, create, query), "default")

(* findSimilarCases once the embedding (g) and the two queries (a, t) have *)
(* settled: any failure yields the two curated cases                       *)
SimilarCasesOf(g, a, t) ==
    IF ~g.ok THEN Ok(2, g.sent, g.errs)
    ELSE IF ~a.ok THEN Ok(2, g.sent \o a.sent, g.errs \cup a.errs)
    ELSE IF ~t.ok THEN Ok(2, g.sent \o a.sent \o t.sent, g.errs \cup a.errs \cup t.errs)
    ELSE Ok(Len(a.val) + Len(t.val), g.sent \o a.sent \o t.sent, g.errs)

(* findSimilarCases: an embedding and two queries.  The result is          *)
(* abstracted to the number of cases.                                      *)
findSimilarCases(e, create, emb, sql1, sql2) ==
    SimilarCasesOf(generateEmbedding(e, create, emb), executeQuery(sql1), executeQuery(sql2))

(* generateScenarios, lines 68-96: the checks on the text and its parsing; *)
(* resolves with rawScenarios or throws an Error                           *)
ParseScenarioResponse(t) ==
    IF IsFalsyText(t) \/ IsBlankText(t) THEN Throw(PlainError, <<>>, {})
    ELSE IF CleanedIsEmpty(t) THEN Throw(PlainError, <<>>, {})
    ELSE IF ~JSONParse(t).ok THEN Throw(PlainError, <<>>, {})
    ELSE Ok(AsArray(JSONParse(t).val), <<>>, {})

(* options.scenarioCount || 3 *)
ScenarioCountOf(n) == IF n = 0 THEN DefaultScenarioCount ELSE n

(* Math.min(rawScenarios.length, scenarioCount): the loop bound *)
LoopBound(rawScenarios, scenarioCount) == Min(Len(rawScenarios), scenarioCount)

(* rawScenario.scenario_id || `scenario_${i + 1}`, i 0-based *)
ScenarioId(rawScenario, i) ==
    IF rawScenario.scenario_id # "" THEN rawScenario.scenario_id
    ELSE IF i = 0 THEN "scenario_1" ELSE IF i = 1 THEN "scenario_2"
    ELSE IF i = 2 THEN "scenario_3" ELSE "scenario_n"

(* Math.round(rawScenario.confidence * 100), line 125: a number field is   *)
(* in thousandths, any other value goes through ToNumber; NaN stays NaN    *)
ConfidenceOf(rawScenario) ==
    IF rawScenario.confidence.kind = "number"
    THEN Num((rawScenario.confidence.num + 5) \div 10)
    ELSE IF ToNumber(rawScenario.confidence).kind = "NaN" THEN NaN
    ELSE Num(ToNumber(rawScenario.confidence).num * 100)

(* a catch that lets the error escape to the caller *)
ScenariosCatchRethrow(error, query, scenarioCount) == Throw(error, <<>>, {})

(* a catch that falls back only for errors other than BigQueryAIError *)
ScenariosCatchRethrowBigQuery(error, query, scenarioCount) ==
    IF error.cls = "BigQueryAIError" THEN Throw(error, <<>>, {})
    ELSE Ok(generateFallbackScenarios(query, scenarioCount), <<>>, {})

(* generateScenarios, lines 139-143: the catch of the whole body; whatever *)
(* was thrown, it resolves with the fallback scenarios                     *)
ScenariosCatch(error, query, scenarioCount) ==
    Ok(generateFallbackScenarios(query, scenarioCount), <<>>, {})

----------------------------------------------------------------------------
(* HTTP responses: NextResponse.json(body, {status}) *)

Resp(status, success, error, data) ==
    [status |-> status, success |-> success, error |-> error, data |-> data]

NoResp == Resp(0, FALSE, "", <<>>)

----------------------------------------------------------------------------
(* app/api/scenarios/route.ts: POST *)

(* A request body: bodyOk is whether request.json() resolves with an       *)
(* object; query "" is a missing or empty query; industry "" a context     *)
(* without industry; scenarioCount 0 an absent options.scenarioCount;      *)
(* similar is options.includeSimilarCases after the route's default        *)
ScenarioBodies ==
    [route : {"scenarios"}, bodyOk : BOOLEAN, query : {"", "q"}, hasContext : BOOLEAN,
     industry : {"", "retail"}, scenarioCount : {0, 1, MaxScenarioCount},
     similar : BOOLEAN]

(* context.industry || 'technology' *)
FullContextIndustry(body) == IF body.industry = "" THEN "technology" ELSE body.industry

(* the checks with the body read and validated before the environment *)
ScenariosPrecheckBodyFirst(e, body) ==
    IF ~body.bodyOk
    THEN Resp(500, FALSE, "Internal server error occurred while generating scenarios", <<>>)
    ELSE IF body.query = "" \/ ~body.hasContext
    THEN Resp(400, FALSE, "Query and context are required", <<>>)
    ELSE IF ~validateEnvironment(e).isValid
    THEN Resp(500, FALSE, "Environment configuration error", <<>>)
    ELSE NoResp

(* lines 9-33: the checks made before the engine is called, in order;      *)
(* NoResp when all of them pass                                            *)
ScenariosPrecheck(e, body) ==
    IF ~validateEnvironment(e).isValid
    THEN Resp(500, FALSE, "Environment configuration error", <<>>)
    ELSE IF ~body.bodyOk
    THEN Resp(500, FALSE, "Internal server error occurred while generating scenarios", <<>>)
    ELSE IF body.query = "" \/ ~body.hasContext
    THEN Resp(400, FALSE, "Query and context are required", <<>>)
    ELSE NoResp

(* lines 65-85: the catch of the route *)
ScenariosRouteCatch(error) ==
    IF error.cls = "BigQueryAIError"
    THEN Resp(IF error.code = "RATE_LIMIT_EXCEEDED" THEN 429 ELSE 500, FALSE, error.code, <<>>)
    ELSE Resp(500, FALSE, "Internal server error occurred while generating scenarios", <<>>)

(* lines 46-63: the response once generateScenarios has settled *)
ScenariosRespond(r) ==
    IF r.ok THEN Resp(200, TRUE, "", r.val) ELSE ScenariosRouteCatch(r.err)

NoMetadata == [timeHorizon |-> 0, variationCount |-> 0]

(* no query parameters: the request is not a GET *)
NoQuery == [present |-> FALSE]

ClearWork ==
    /\ textClass' = "none"
    /\ raw' = <<>>
    /\ idx' = 0
    /\ scenarios' = <<>>
    /\ cur' = <<>>
    /\ forecasts' = <<>>
    /\ metadata' = NoMetadata

ScenariosPOST ==
    /\ pc = "idle"
    /\ \E body \in ScenarioBodies :
         LET early == ScenariosPrecheck(env, body)
         IN  /\ req' = body
             /\ IF early.status # 0
                THEN /\ resp' = early
                     /\ pc' = "done"
                     /\ invoked' = {}
                ELSE /\ resp' = NoResp
                     /\ pc' = "gs_text"
                     /\ invoked' = {"generateScenarios"}
    /\ remoteErrs' = {}
    /\ params' = NoQuery
    /\ ClearWork
    /\ UNCHANGED <<page, env, calls, lastCall>>

(* generateScenarios settles with r: the route responds *)
ScenariosSettle(r) ==
    /\ resp' = ScenariosRespond(r)
    /\ pc' = "done"

(* generateScenarios threw inside its try block *)
ScenariosFail(error) ==
    ScenariosSettle(ScenariosCatch(error, req.query, ScenarioCountOf(req.scenarioCount)))

(* How the main generateText call ended: it threw, or it resolved with a   *)
(* text that is empty or white space, that is not JSON, or that is JSON    *)
TextClass(t) ==
    IF ~t.ok THEN "threw"
    ELSE IF t.val.kind \in {"empty", "blank"} /\ ~t.val.fence THEN "blank"
    ELSE IF t.val.kind # "json" THEN "unparseable"
    ELSE "json"

(* lines 59-101: the main generateText call, the parsing, the loop entry *)
GenerateScenariosText ==
    /\ pc = "gs_text"
    /\ \E create \in StatementOutcomes, query \in TextOutcomes :
         LET t == generateText(env, create, query)
             p == IF t.ok THEN ParseScenarioResponse(t.val) ELSE t
         IN  /\ remoteErrs' = remoteErrs \cup t.errs
             /\ invoked' = invoked \cup {"generateText"}
             /\ textClass' = TextClass(t)
             /\ IF ~p.ok
                THEN /\ ScenariosFail(p.err)
                     /\ UNCHANGED raw
                ELSE /\ raw' = p.val
                     /\ IF LoopBound(p.val, ScenarioCountOf(req.scenarioCount)) > 0
                        THEN /\ pc' = "gs_timeline"
                             /\ UNCHANGED resp
                        ELSE ScenariosSettle(Ok(<<>>, <<>>, {}))
    /\ UNCHANGED <<page, env, req, idx, scenarios, cur, forecasts, calls, lastCall, params, metadata>>

(* line 105: the timeline of rawScenarios[i] *)
GenerateScenarioTimeline ==
    /\ pc = "gs_timeline"
    /\ \E sql \in SqlOutcomes, o \in TableOracles(MockMonths, NoEstimate) :
         LET tl == generateTimeline(raw[idx + 1], FullContextIndustry(req), env, sql, o)
         IN  /\ cur' = tl.val
             /\ remoteErrs' = remoteErrs \cup tl.errs
    /\ invoked' = invoked \cup {"generateTimeline"}
    /\ pc' = "gs_details"
    /\ UNCHANGED <<page, env, req, resp, textClass, raw, idx, scenarios, forecasts, calls, lastCall, params, metadata>>

(* lines 108-119 once the four calls have settled with f, r, k and c: the  *)
(* first rejection, in call order, is what the loop body throws            *)
DetailsOf(f, r, k, c) ==
    IF ~f.ok THEN f
    ELSE IF ~r.ok THEN Throw(r.err, <<>>, f.errs \cup r.errs)
    ELSE IF ~k.ok THEN Throw(k.err, <<>>, f.errs \cup r.errs \cup k.errs)
    ELSE Ok(c.val, <<>>, f.errs \cup r.errs \cup k.errs \cup c.errs)

(* lines 108-119: projections, risks, insights and similar cases, which    *)
(* the model keeps only as far as they can reject                          *)
ScenarioDetails(rawScenario, similar, e, o, risk, insights, emb, sql) ==
    DetailsOf(generateFinancialProjections(rawScenario, e, o),
              generateRiskAssessment(rawScenario, e, Answered(<<>>), risk),
              generateKeyInsights(rawScenario, e, Answered(<<>>), insights),
              IF similar THEN findSimilarCases(e, Answered(<<>>), emb, sql, sql)
              ELSE Ok(0, <<>>, {}))

(* lines 108-138: the rest of one loop iteration; the scenario is pushed   *)
(* and the loop goes on or generateScenarios returns                       *)
GenerateScenarioDetails ==
    /\ pc = "gs_details"
    /\ \E o \in DetailOracles, risk \in PlainTextOutcomes, insights \in PlainTextOutcomes,
          emb \in {Failed(E500), Answered(<<1>>)}, sql \in SqlOutcomes :
         LET rawScenario == raw[idx + 1]
             d == ScenarioDetails(rawScenario, req.similar, env, o, risk, insights, emb, sql)
             pushed == Append(scenarios,
                              Scenario(ScenarioId(rawScenario, idx), rawScenario.title,
                                       ConfidenceOf(rawScenario), cur))
         IN  /\ remoteErrs' = remoteErrs \cup d.errs
             /\ IF ~d.ok
                THEN /\ ScenariosFail(d.err)
                     /\ UNCHANGED <<idx, scenarios, cur>>
                ELSE /\ scenarios' = pushed
                     /\ idx' = idx + 1
                     /\ cur' = <<>>
                     /\ IF idx + 1 < LoopBound(raw, ScenarioCountOf(req.scenarioCount))
                        THEN /\ pc' = "gs_timeline"
                             /\ UNCHANGED resp
                        ELSE ScenariosSettle(Ok(pushed, <<>>, {}))
    /\ invoked' = invoked \cup {"generateFinancialProjections"}
    /\ UNCHANGED <<page, env, req, textClass, raw, forecasts, calls, lastCall, params, metadata>>

----------------------------------------------------------------------------
(* app/api/forecast/route.ts *)

(* A variation name is a sequence of words; toLowerCase() maps each word   *)
Words == {"Base", "Market", "SURGE", "Soars", "limited", "Noise", "Resurgence"}

ToLowerCase(w) ==
    CASE w = "Base" -> "base"
      [] w = "Market" -> "market"
      [] w = "SURGE" -> "surge"
      [] w = "Soars" -> "soars"
      [] w = "limited" -> "limited"
      [] w = "Noise" -> "noise"
      [] w = "Resurgence" -> "resurgence"
      [] OTHER -> w

(* word.includes(keyword): the keyword is the word or a part of it *)
WordIncludes(word, keyword) ==
    word = keyword \/ (word = "resurgence" /\ keyword = "surge")

(* name.toLowerCase().includes(keyword) *)
LowerIncludes(name, keyword) ==
    \E i \in 1..Len(name) : WordIncludes(ToLowerCase(name[i]), keyword)

(* A variation of the request: null, or an object whose name may be absent *)
Variation(kind, hasName, name, description, parameters) ==
    [kind |-> kind, hasName |-> hasName, name |-> name, description |-> description,
     parameters |-> parameters]

VariationSamples ==
    {Variation("null", FALSE, <<>>, "", ""), Variation("object", FALSE, <<>>, "d0", "p0")}
    \cup {Variation("object", TRUE, n, "d", "p") :
              n \in {<<"Base">>, <<"Market", "SURGE">>, <<"limited">>, <<"Noise", "Soars">>,
                     <<"Resurgence">>}}
    \cup {Variation("object", TRUE, <<"limited">>, "Market SURGE", "soars")}

(* the variations of the requests that carry more than one *)
PairSamples ==
    {Variation("object", FALSE, <<>>, "d0", "p0"), Variation("object", TRUE, <<"Base">>, "d", "p"),
     Variation("object", TRUE, <<"limited">>, "d", "p"),
     Variation("object", TRUE, <<"limited">>, "Market SURGE", "soars")}

(* variation.name.toLowerCase() throws a TypeError when variation is null  *)
(* or has no name                                                          *)
NameThrows(variation) == variation.kind = "null" \/ ~variation.hasName

(* the growth profile with the conservative keywords tested first *)
ProfileOfConservativeFirst(name) ==
    IF LowerIncludes(name, "limited") \/ LowerIncludes(name, "noise") THEN "conservative"
    ELSE IF LowerIncludes(name, "surge") \/ LowerIncludes(name, "soars") THEN "optimistic"
    ELSE "realistic"

(* lines 49-55: the growth profile *)
ProfileOf(name) ==
    IF LowerIncludes(name, "surge") \/ LowerIncludes(name, "soars") THEN "optimistic"
    ELSE IF LowerIncludes(name, "limited") \/ LowerIncludes(name, "noise") THEN "conservative"
    ELSE "realistic"

(* lines 22-47: the growth profiles *)
profiles ==
    [optimistic |-> [baseRevenue |-> 120000, growthRate |-> 118, customerBase |-> 1200,
                     customerGrowth |-> 115, marketShareBase |-> 40000,
                     marketShareGrowth |-> 112],
     realistic |-> [baseRevenue |-> 75000, growthRate |-> 112, customerBase |-> 800,
                    customerGrowth |-> 110, marketShareBase |-> 25000,
                    marketShareGrowth |-> 108],
     conservative |-> [baseRevenue |-> 35000, growthRate |-> 106, customerBase |-> 400,
                       customerGrowth |-> 105, marketShareBase |-> 15000,
                       marketShareGrowth |-> 104]]

ShareCap == 300000

(* What Math.random gives during one callback, the same for every point:   *)
(* the variance of the synthetic revenue, in percent (-5 up to 5), and the *)
(* factor of the blended revenue, in percent (90 up to 110)                *)
Randoms == {[variance |-> -5, factor |-> 109], [variance |-> 4, factor |-> 90]}

(* events[month] || [], kept as the month whose events they are (0: none) *)
getKeyEventsForMonth(month) == IF month \in 1..12 THEN month ELSE 0

(* line 68 *)
SyntheticRevenue(profile, month, rnd) ==
    RoundPct(Grow(profile.baseRevenue, profile.growthRate, month - 1), 100 + rnd.variance)

(* lines 59-82: the point of one month; monthStr and date are kept as the  *)
(* month number, probability as where it comes from                        *)
RealisticPoint(name, profile, month, rnd) ==
    [month |-> month, date |-> month, profile |-> name, valuesFrom |-> "curve",
     revenue |-> SyntheticRevenue(profile, month, rnd),
     probability |-> "curve",
     marketShare |-> MathMin(Num(Grow(profile.marketShareBase, profile.marketShareGrowth,
                                      month - 1)), ShareCap),
     customerCount |-> Grow(profile.customerBase, profile.customerGrowth, month - 1),
     operatingCosts |-> RoundPct(SyntheticRevenue(profile, month, rnd), 72),
     keyEvents |-> getKeyEventsForMonth(month)]

(* generateRealisticTimeline: one point per month 1..timeHorizon *)
generateRealisticTimeline(variation, index, timeHorizon, rnd) ==
    IF NameThrows(variation) THEN Throw(TypeError, <<>>, {})
    ELSE Ok([month \in 1..timeHorizon |->
                RealisticPoint(ProfileOf(variation.name), profiles[ProfileOf(variation.name)],
                               month, rnd)],
            <<>>, {})

(* aiData?.[0] || null, then aiInsights && aiInsights.revenue_estimate *)
HasRevenueEstimate(aiData) ==
    /\ Len(aiData) > 0
    /\ aiData[1].kind = "object"
    /\ aiData[1].revenue_estimate # 0

(* aiInsights.market_share_estimate || 0.02 *)
MarketShareOf(aiInsights) ==
    IF Truthy(aiInsights.market_share_estimate) THEN aiInsights.market_share_estimate
    ELSE Num(20000)

(* a blend that also recomputes the operating costs from the new revenue *)
BlendPointWithCosts(point, aiInsights, monthIndex, rnd) ==
    [point EXCEPT
        !.valuesFrom = "ai",
        !.revenue = RoundPct(Grow(aiInsights.revenue_estimate, 110, monthIndex), rnd.factor),
        !.marketShare = MathMin(Times(MarketShareOf(aiInsights), 105, monthIndex), ShareCap),
        !.customerCount = Grow(500, 108, monthIndex),
        !.probability = "ai",
        !.operatingCosts =
            RoundPct(RoundPct(Grow(aiInsights.revenue_estimate, 110, monthIndex), rnd.factor), 72)]

(* lines 172-178: {...point, revenue, marketShare, customerCount,          *)
(* probability}; the row carries no customer_estimate, so aiCustomers is   *)
(* 500                                                                     *)
BlendPoint(point, aiInsights, monthIndex, rnd) ==
    [point EXCEPT
        !.valuesFrom = "ai",
        !.revenue = RoundPct(Grow(aiInsights.revenue_estimate, 110, monthIndex), rnd.factor),
        !.marketShare = MathMin(Times(MarketShareOf(aiInsights), 105, monthIndex), ShareCap),
        !.customerCount = Grow(500, 108, monthIndex),
        !.probability = "ai"]

(* lines 165-179: the AI estimate replaces the values of every point *)
BlendAI(timeline, aiData, rnd) ==
    IF HasRevenueEstimate(aiData)
    THEN [i \in 1..Len(timeline) |-> BlendPoint(timeline[i], aiData[1], i - 1, rnd)]
    ELSE timeline

(* a forecast whose variationId counts the variations from 1 *)
ForecastOneBased(index, variation, timeline) ==
    [variationId |-> index + 1, variationName |-> variation.name,
     description |-> variation.description, parameters |-> variation.parameters,
     timeline |-> timeline]

(* lines 187-199: variationId is `variation_${index}`, kept as the index *)
Forecast(index, variation, timeline) ==
    [variationId |-> index, variationName |-> variation.name,
     description |-> variation.description, parameters |-> variation.parameters,
     timeline |-> timeline]

(* lines 201-218: the catch of one variation builds the timeline again *)
VariationCatch(variation, index, timeHorizon, rnd, sent, errs) ==
    IF generateRealisticTimeline(variation, index, timeHorizon, rnd).ok
    THEN Ok(Forecast(index, variation,
                     generateRealisticTimeline(variation, index, timeHorizon, rnd).val),
            sent, errs)
    ELSE Throw(generateRealisticTimeline(variation, index, timeHorizon, rnd).err, sent, errs)

(* lines 161-218 once generateTable has settled with ai: a rejection is    *)
(* swallowed by the inner catch and leaves aiInsights null                 *)
ForecastOf(variation, index, timeHorizon, rnd, ai, timeline) ==
    IF timeline.ok
    THEN Ok(Forecast(index, variation,
                     BlendAI(timeline.val, IF ai.ok THEN ai.val ELSE <<>>, rnd)),
            ai.sent, ai.errs)
    ELSE VariationCatch(variation, index, timeHorizon, rnd, ai.sent, ai.errs)

(* lines 128-219: the async callback of one variation (index 0-based); o   *)
(* holds the remote outcomes of its generateTable call                     *)
ProcessVariation(variation, index, timeHorizon, e, o, rnd) ==
    IF variation.kind = "null"
    THEN VariationCatch(variation, index, timeHorizon, rnd, <<>>, {})
    ELSE ForecastOf(variation, index, timeHorizon, rnd, generateTable(e, o),
                    generateRealisticTimeline(variation, index, timeHorizon, rnd))

(* A request body: timeHorizon -1 is an absent field *)
(* and a missing variations field has hasVariations FALSE                   *)
(* Bodies with several variations take them from PairSamples and carry no *)
(* timeHorizon                                                             *)
ForecastBodies ==
    {b \in [route : {"forecast"}, bodyOk : BOOLEAN, hasBase : BOOLEAN, hasVariations : BOOLEAN,
            variations : UNION {[1..n -> VariationSamples] : n \in 0..MaxVariations},
            timeHorizon : {-1, ShortHorizon}] :
        /\ ~b.hasVariations => b.variations = <<>>
        /\ Len(b.variations) > 1 =>
               b.timeHorizon = -1 /\ \A i \in 1..Len(b.variations) : b.variations[i] \in PairSamples}

(* const { ..., timeHorizon = 12 } = body *)
TimeHorizonOf(body) ==
    IF body.timeHorizon = -1 THEN DefaultTimeHorizon ELSE body.timeHorizon

(* the validation without the test for an empty variations array *)
ForecastPrecheckNoEmpty(body) ==
    IF ~body.bodyOk
    THEN Resp(500, FALSE, "Internal server error occurred during forecasting", <<>>)
    ELSE IF ~body.hasBase \/ ~body.hasVariations
    THEN Resp(400, FALSE, "Base scenario and variations are required", <<>>)
    ELSE NoResp

(* lines 109-122: body parsing and validation; NoResp when they pass *)
ForecastPrecheck(body) ==
    IF ~body.bodyOk
    THEN Resp(500, FALSE, "Internal server error occurred during forecasting", <<>>)
    ELSE IF ~body.hasBase \/ ~body.hasVariations \/ Len(body.variations) = 0
    THEN Resp(400, FALSE, "Base scenario and variations are required", <<>>)
    ELSE NoResp

(* One promise of the Promise.all; rank is the position in which it       *)
(* settled among the callbacks of the request (0: not yet)                 *)
(* trace keeps what the callback computed on its way: the synthetic        *)
(* timeline of line 162 and the rows of line 154 (none when the call threw) *)
Trace(synthetic, aiData) == [synthetic |-> synthetic, aiData |-> aiData]

NoTrace == Trace(<<>>, <<>>)

Pending ==
    [state |-> "pending", forecast |-> <<>>, aiFailed |-> FALSE, rank |-> 0, trace |-> NoTrace]

Fulfilled(f, aiFailed, rank, trace) ==
    [state |-> "fulfilled", forecast |-> f, aiFailed |-> aiFailed, rank |-> rank,
     trace |-> trace]

Rejected(aiFailed, rank) ==
    [state |-> "rejected", forecast |-> <<>>, aiFailed |-> aiFailed, rank |-> rank,
     trace |-> NoTrace]

(* What one callback draws from outside: the estimate a generated forecast *)
(* row carries (none, a revenue only, a revenue with a market share of     *)
(* 0.5, or with one that is no number) and what Math.random gives          *)
Draws ==
    {[est |-> NoEstimate, rnd |-> r] : r \in Randoms}
    \cup {[est |-> Estimate(90000, Undefined), rnd |-> [variance |-> -5, factor |-> 109]],
          [est |-> Estimate(90000, Num(500000)), rnd |-> [variance |-> 4, factor |-> 90]],
          [est |-> Estimate(90000, Str(<<"1", "2", "%">>)),
           rnd |-> [variance |-> -5, factor |-> 109]]}

(* The remote outcomes of the generateTable call of one callback *)
ForecastOracles(est) ==
    {o \in TableOracles(1, est) :
        /\ o.table # Failed(E500)
        /\ ~o.create.ok => o.table = Failed(E429) /\ o.fbText = Failed(E500)
        /\ o.fbText.ok => Len(o.fbText.rows[1].llm.json.items) = 1}

Settled(fs) == Cardinality({k \in 1..Len(fs) : fs[k].state # "pending"})

ForecastPOST ==
    /\ pc = "idle"
    /\ \E body \in ForecastBodies :
         LET early == ForecastPrecheck(body)
         IN  /\ req' = body
             /\ IF early.status # 0
                THEN /\ resp' = early
                     /\ pc' = "done"
                     /\ forecasts' = <<>>
                ELSE /\ resp' = NoResp
                     /\ pc' = "fc_run"
                     /\ forecasts' = [i \in 1..Len(body.variations) |-> Pending]
    /\ invoked' = {}
    /\ remoteErrs' = {}
    /\ textClass' = "none"
    /\ raw' = <<>>
    /\ idx' = 0
    /\ scenarios' = <<>>
    /\ cur' = <<>>
    /\ params' = NoQuery
    /\ metadata' = NoMetadata
    /\ UNCHANGED <<page, env, calls, lastCall>>

(* One callback of the Promise.all settles.  A rejection rejects the       *)
(* Promise.all at once and the route answers from its outer catch          *)
ForecastVariation(i) ==
    /\ pc = "fc_run"
    /\ i \in 1..Len(forecasts)
    /\ forecasts[i].state = "pending"
    /\ \E draw \in Draws : \E o \in ForecastOracles(draw.est) :
         LET rnd == draw.rnd
             r == ProcessVariation(req.variations[i], i - 1, TimeHorizonOf(req), env, o, rnd)
             aiFailed == req.variations[i].kind # "null" /\ ~generateTable(env, o).ok
             trace == Trace(generateRealisticTimeline(req.variations[i], i - 1,
                                                      TimeHorizonOf(req), rnd).val,
                            IF generateTable(env, o).ok THEN generateTable(env, o).val ELSE <<>>)
         IN  /\ remoteErrs' = remoteErrs \cup r.errs
             /\ invoked' = invoked \cup (IF req.variations[i].kind = "null" THEN {}
                                         ELSE {"generateTable"})
             /\ IF r.ok
                THEN /\ forecasts' = [forecasts EXCEPT
                                         ![i] = Fulfilled(r.val, aiFailed, Settled(forecasts) + 1, trace)]
                     /\ UNCHANGED <<pc, resp>>
                ELSE /\ forecasts' = [forecasts EXCEPT
                                         ![i] = Rejected(aiFailed, Settled(forecasts) + 1)]
                     /\ resp' = Resp(500, FALSE, "Internal server error occurred during forecasting", <<>>)
                     /\ pc' = "done"
    /\ UNCHANGED <<page, env, req, textClass, raw, idx, scenarios, cur, calls, lastCall, params, metadata>>

(* lines 222-242: every callback fulfilled *)
ForecastRespond ==
    /\ pc = "fc_run"
    /\ \A i \in 1..Len(forecasts) : forecasts[i].state = "fulfilled"
    /\ resp' = Resp(200, TRUE, "", [i \in 1..Len(forecasts) |-> forecasts[i].forecast])
    /\ pc' = "done"
    /\ metadata' = [timeHorizon |-> TimeHorizonOf(req), variationCount |-> Len(req.variations)]
    /\ UNCHANGED <<page, env, req, textClass, raw, idx, scenarios, cur, forecasts, invoked, remoteErrs,
                   calls, lastCall, params>>

----------------------------------------------------------------------------
(* app/api/vector-search/route.ts: POST *)

(* the similarity of the five mock cases, in percent, in source order *)
mockSimilarCases == <<89, 84, 78, 72, 69>>

RECURSIVE InsertDesc(_, _)
InsertDesc(sorted, x) ==
    IF Len(sorted) = 0 THEN <<x>>
    ELSE IF x > Head(sorted) THEN <<x>> \o sorted
    ELSE <<Head(sorted)>> \o InsertDesc(Tail(sorted), x)

RECURSIVE SortDesc(_)
(* .sort((a, b) => b.similarity - a.similarity): stable, descending *)
SortDesc(s) == IF Len(s) = 0 THEN <<>> ELSE InsertDesc(SortDesc(SubSeq(s, 1, Len(s) - 1)), s[Len(s)])

(* .slice(0, end) for an integer end: a negative end counts from the back *)
SliceTo(s, end) ==
    IF end < 0 THEN SubSeq(s, 1, IF Len(s) + end < 0 THEN 0 ELSE Len(s) + end)
    ELSE SubSeq(s, 1, Min(end, Len(s)))

(* texts a limit can be written as *)
LimitTexts ==
    {<<>>, <<"3">>, <<"1", "0">>, <<"-", "2">>, <<"1", "e", "3">>, <<"3", "p", "x">>,
     <<"a">>, <<"2", "0", "e", "-", "1">>}

(* values the limit of a JSON body can have *)
LimitValues ==
    {Undefined, Null} \cup {Num(n) : n \in (-MaxLimit)..MaxLimit} \cup {Str(t) : t \in LimitTexts}

(* A request body *)
VectorBodies ==
    [route : {"vector-search"}, bodyOk : BOOLEAN, situation : {"", "s"}, industry : {"", "i"},
     limit : LimitValues]

(* const { ..., limit = 5 } = body: the default applies to undefined only *)
LimitOf(body) == IF body.limit.kind = "undefined" THEN Num(DefaultLimit) ELSE body.limit

(* lines 8-21 *)
VectorPrecheck(body) ==
    IF ~body.bodyOk
    THEN Resp(500, FALSE, "Internal server error occurred during vector search", <<>>)
    ELSE IF body.situation = "" \/ body.industry = ""
    THEN Resp(400, FALSE, "Situation and industry are required", <<>>)
    ELSE NoResp

(* lines 89-109: the catch of the route *)
VectorRouteCatch(error) ==
    IF error.cls = "BigQueryAIError"
    THEN Resp(IF error.code = "RATE_LIMIT_EXCEEDED" THEN 429 ELSE 500, FALSE, error.code, <<>>)
    ELSE Resp(500, FALSE, "Internal server error occurred during vector search", <<>>)

(* lines 23-87: the response once generateEmbedding has settled with g *)
VectorRespond(g, limit) ==
    IF g.ok
    THEN Resp(200, TRUE, "", SliceTo(SortDesc(mockSimilarCases), ToIntegerOrInfinity(limit)))
    ELSE VectorRouteCatch(g.err)

VectorSearchPOST ==
    /\ pc = "idle"
    /\ \E body \in VectorBodies :
         LET early == VectorPrecheck(body)
         IN  /\ req' = body
             /\ IF early.status # 0
                THEN /\ resp' = early
                     /\ pc' = "done"
                ELSE /\ resp' = NoResp
                     /\ pc' = "vs_embed"
    /\ invoked' = {}
    /\ remoteErrs' = {}
    /\ params' = NoQuery
    /\ ClearWork
    /\ UNCHANGED <<page, env, calls, lastCall>>

VectorSearchEmbed ==
    /\ pc = "vs_embed"
    /\ \E create \in StatementOutcomes, emb \in EmbeddingOutcomes :
         LET g == generateEmbedding(env, create, emb)
         IN  /\ resp' = VectorRespond(g, LimitOf(req))
             /\ remoteErrs' = remoteErrs \cup g.errs
    /\ invoked' = invoked \cup {"generateEmbedding"}
    /\ pc' = "done"
    /\ UNCHANGED <<page, env, req, textClass, raw, idx, scenarios, cur, forecasts, calls, lastCall, params, metadata>>

----------------------------------------------------------------------------
(* app/api/vector-search/route.ts: GET *)

(* The query parameters: "" is an absent or empty situation or industry;   *)
(* hasLimit is whether a limit parameter is given, limit its text          *)
VectorQueries ==
    {q \in [present : {TRUE}, situation : {"", "s"}, industry : {"", "i"}, hasLimit : BOOLEAN,
            limit : LimitTexts] : ~q.hasLimit => q.limit = <<>>}

(* parseInt(searchParams.get('limit') || '5') *)
QueryLimit(q) == parseInt(IF ~q.hasLimit \/ q.limit = <<>> THEN <<"5">> ELSE q.limit)

(* JSON.stringify followed by request.json(): NaN is serialised as null *)
JsonNumber(v) == IF v.kind = "NaN" THEN Null ELSE v

(* lines 126-129: the body of the request handed to POST *)
QueryBody(q) ==
    [route |-> "vector-search", bodyOk |-> TRUE, situation |-> q.situation,
     industry |-> q.industry, limit |-> JsonNumber(QueryLimit(q))]

VectorSearchGET ==
    /\ pc = "idle"
    /\ \E q \in VectorQueries :
         /\ params' = q
         /\ IF q.situation = "" \/ q.industry = ""
            THEN /\ req' = [route |-> "vector-search-get", bodyOk |-> TRUE]
                 /\ resp' = Resp(400, FALSE, "Situation and industry parameters are required", <<>>)
                 /\ pc' = "done"
                 /\ invoked' = {}
            ELSE /\ req' = QueryBody(q)
                 /\ invoked' = {"POST"}
                 /\ IF VectorPrecheck(QueryBody(q)).status # 0
                    THEN /\ resp' = VectorPrecheck(QueryBody(q))
                         /\ pc' = "done"
                    ELSE /\ resp' = NoResp
                         /\ pc' = "vs_embed"
    /\ remoteErrs' = {}
    /\ ClearWork
    /\ UNCHANGED <<page, env, calls, lastCall>>

----------------------------------------------------------------------------
(* Direct use of the BigQueryAI singleton: every invocation, with the      *)
(* remote statements it sent and whether the same function had already     *)
(* been invoked with the same arguments                                    *)

Prompts == {"p1", "p2"}

Invocation(fn, arg, r) ==
    [fn |-> fn, arg |-> arg, repeated |-> <<fn, arg>> \in calls, sent |-> r.sent, ok |-> r.ok]

CallGenerateText ==
    /\ \E prompt \in Prompts, create \in StatementOutcomes, query \in TextOutcomes :
         /\ lastCall' = Invocation("generateText", prompt, generateText(env, create, query))
         /\ calls' = calls \cup {<<"generateText", prompt>>}
    /\ UNCHANGED <<page, env, routeVars>>

CallGenerateTable ==
    /\ \E prompt \in Prompts, o \in TableOracles(1, NoEstimate) :
         /\ lastCall' = Invocation("generateTable", prompt, generateTable(env, o))
         /\ calls' = calls \cup {<<"generateTable", prompt>>}
    /\ UNCHANGED <<page, env, routeVars>>

CallGenerateEmbedding ==
    /\ \E text \in Prompts, create \in StatementOutcomes, query \in EmbeddingOutcomes :
         /\ lastCall' = Invocation("generateEmbedding", text, generateEmbedding(env, create, query))
         /\ calls' = calls \cup {<<"generateEmbedding", text>>}
    /\ UNCHANGED <<page, env, routeVars>>

----------------------------------------------------------------------------
(* app/simulator/page.tsx: Simulator.  query, isProcessing, showResults    *)
(* and scenarios are the React state (scenarios is kept as the number of   *)
(* the submission that set it, 0: none); sendDisabled and inputDisabled    *)
(* are the disabled attributes of the send button and of the textarea as   *)
(* last rendered; runs maps every submission to its position and started   *)
(* counts the submissions; succeeded holds those that ended with           *)
(* setScenarios                                                            *)

Queries == {"", " ", "q1", "q2"}

(* query.trim() is empty *)
TrimIsEmpty(q) == q \in {"", " "}

(* a send button that is disabled only for an empty query *)
SendDisabledQueryOnly(isProcessing, q) == TrimIsEmpty(q)

(* line 443: disabled={isProcessing || !query.trim()} *)
SendDisabled(isProcessing, q) == isProcessing \/ TrimIsEmpty(q)

(* React renders the form from the state *)
Rendered(state) ==
    [state EXCEPT !.sendDisabled = SendDisabled(state.isProcessing, state.query),
                  !.inputDisabled = state.isProcessing]

InitialPage ==
    Rendered([query |-> "", isProcessing |-> FALSE, showResults |-> FALSE, scenarios |-> 0,
              sendDisabled |-> TRUE, inputDisabled |-> FALSE, runs |-> <<>>, started |-> 0,
              succeeded |-> {}])

ActiveRuns == {id \in 1..page.started : page.runs[id] # "ended"}

(* lines 433 and 457: the textarea or an example button sets the query;    *)
(* React renders before the next event is handled                          *)
SetQuery ==
    /\ ~page.inputDisabled
    /\ \E q \in Queries : page' = Rendered([page EXCEPT !.query = q])
    /\ UNCHANGED <<env, routeVars, calls, lastCall>>

(* lines 202-207: a click on the send button runs handleSubmit up to its   *)
(* first await; React renders before the next event is handled             *)
HandleSubmit ==
    /\ ~page.sendDisabled
    /\ page.started < MaxSubmissions
    /\ IF TrimIsEmpty(page.query)
       THEN page' = page
       ELSE page' = Rendered([page EXCEPT !.isProcessing = TRUE, !.showResults = FALSE,
                                          !.started = @ + 1,
                                          !.runs = Append(@, "stages")])
    /\ UNCHANGED <<env, routeVars, calls, lastCall>>

(* lines 210-214: the processing stages have been shown *)
SubmitStages(id) ==
    /\ id \in ActiveRuns
    /\ page.runs[id] = "stages"
    /\ page' = [page EXCEPT !.runs[id] = "scenarios"]
    /\ UNCHANGED <<env, routeVars, calls, lastCall>>

(* lines 230-259: the scenarios request is answered; a failure goes to the *)
(* catch and the finally block, rendered later                             *)
SubmitScenarios(id) ==
    /\ id \in ActiveRuns
    /\ page.runs[id] = "scenarios"
    /\ \E ok \in BOOLEAN :
         page' = IF ok THEN [page EXCEPT !.runs[id] = "forecast"]
                 ELSE [page EXCEPT !.runs[id] = "ended", !.isProcessing = FALSE]
    /\ UNCHANGED <<env, routeVars, calls, lastCall>>

(* lines 265-319: the forecast request is answered; on success the         *)
(* scenarios are set, and the finally block clears isProcessing            *)
SubmitForecast(id) ==
    /\ id \in ActiveRuns
    /\ page.runs[id] = "forecast"
    /\ \E ok \in BOOLEAN :
         page' = IF ok
                 THEN [page EXCEPT !.runs[id] = "ended", !.isProcessing = FALSE,
                                   !.scenarios = id, !.showResults = TRUE,
                                   !.succeeded = @ \cup {id}]
                 ELSE [page EXCEPT !.runs[id] = "ended", !.isProcessing = FALSE]
    /\ UNCHANGED <<env, routeVars, calls, lastCall>>

(* React renders the state set outside an event handler *)
Render ==
    /\ page # Rendered(page)
    /\ page' = Rendered(page)
    /\ UNCHANGED <<env, routeVars, calls, lastCall>>

----------------------------------------------------------------------------
(* The response has been sent: the handler's locals are gone and the       *)
(* server waits for the next request                                       *)
Deliver ==
    /\ pc = "done"
    /\ pc' = "idle"
    /\ req' = [route |-> "none"]
    /\ resp' = NoResp
    /\ invoked' = {}
    /\ remoteErrs' = {}
    /\ params' = NoQuery
    /\ ClearWork
    /\ UNCHANGED <<page, env, calls, lastCall>>

----------------------------------------------------------------------------

Envs == [project : BOOLEAN, creds : BOOLEAN]

NoCall == [fn |-> "none", arg |-> "", repeated |-> FALSE, sent |-> <<>>, ok |-> TRUE]

Init ==
    /\ env \in Envs
    /\ pc = "idle"
    /\ req = [route |-> "none"]
    /\ resp = NoResp
    /\ textClass = "none"
    /\ raw = <<>>
    /\ idx = 0
    /\ scenarios = <<>>
    /\ cur = <<>>
    /\ forecasts = <<>>
    /\ invoked = {}
    /\ remoteErrs = {}
    /\ calls = {}
    /\ lastCall = NoCall
    /\ params = NoQuery
    /\ metadata = NoMetadata
    /\ page = InitialPage

Next ==
    \/ ScenariosPOST
    \/ GenerateScenariosText
    \/ GenerateScenarioTimeline
    \/ GenerateScenarioDetails
    \/ ForecastPOST
    \/ \E i \in 1..MaxVariations : ForecastVariation(i)
    \/ ForecastRespond
    \/ VectorSearchPOST
    \/ VectorSearchEmbed
    \/ VectorSearchGET
    \/ Deliver

Spec == Init /\ [][Next]_vars

ClientNext ==
    \/ CallGenerateText
    \/ CallGenerateTable
    \/ CallGenerateEmbedding

SpecClient == Init /\ [][ClientNext]_vars

PageNext ==
    \/ SetQuery
    \/ HandleSubmit
    \/ \E id \in 1..MaxSubmissions : SubmitStages(id)
    \/ \E id \in 1..MaxSubmissions : SubmitScenarios(id)
    \/ \E id \in 1..MaxSubmissions : SubmitForecast(id)
    \/ Render

SpecPage == Init /\ [][PageNext]_vars

----------------------------------------------------------------------------
(* Properties *)

Done(route) == pc = "done" /\ req.route = route

Ids(data) == [i \in 1..Len(data) |-> data[i].id]

EnvValid == env.project /\ env.creds

(* C1: whenever the main generateText call of generateScenarios throws, or *)
(* resolves with an empty or white-space text, or with text that is not    *)
(* JSON, generateScenarios resolves (the route answers 200) with the three *)
(* fallback scenarios scenario_1, scenario_2, scenario_3, whatever         *)
(* scenarioCount was requested.                                            *)
C1_FallbackOnRemoteFailure ==
    (Done("scenarios") /\ textClass \in {"threw", "blank", "unparseable"})
        => /\ resp.status = 200
           /\ resp.success
           /\ Ids(resp.data) = <<"scenario_1", "scenario_2", "scenario_3">>
           /\ \A i \in 1..3 : Len(resp.data[i].timeline) = MockMonths

C1_Witness ==
    /\ Done("scenarios")
    /\ textClass = "threw"
    /\ req.scenarioCount = 1
    /\ Len(resp.data) = 3

(* C2: in POST /api/forecast, whenever the generateTable call of some      *)
(* variation fails, the route answers 200 with success:true and that       *)
(* variation's forecast carries the synthetic timeline.                    *)
C2_ForecastSurvivesAIFailure ==
    Done("forecast") =>
        \A i \in 1..Len(forecasts) :
            forecasts[i].aiFailed =>
                /\ resp.status = 200
                /\ resp.success
                /\ \A k \in 1..Len(resp.data[i].timeline) :
                       resp.data[i].timeline[k].valuesFrom = "curve"

(* the requests whose fields are all well-formed *)
ValidRequest ==
    /\ req.bodyOk
    /\ req.route = "scenarios" => EnvValid /\ req.query # "" /\ req.hasContext
    /\ req.route = "forecast" =>
          /\ req.hasBase /\ req.hasVariations /\ Len(req.variations) > 0
          /\ \A i \in 1..Len(req.variations) : ~NameThrows(req.variations[i])
    /\ req.route = "vector-search" => req.situation # "" /\ req.industry # ""

(* C3: in each of the three routes, a failed remote BigQuery call with an  *)
(* otherwise valid request does not surface as an error: the route answers *)
(* success:true.                                                           *)
C3_NoRouteSurfacesRemoteFailure ==
    (pc = "done" /\ ValidRequest /\ remoteErrs # {})
        => resp.success /\ resp.status = 200

Timelines ==
    IF req.route \in {"scenarios", "forecast"} /\ resp.success
    THEN {resp.data[i].timeline : i \in 1..Len(resp.data)}
    ELSE {}

(* C4: every timeline of a returned scenario or forecast has exactly       *)
(* twelve points.                                                          *)
C4_TwelvePoints ==
    pc = "done" => \A tl \in Timelines : Len(tl) = 12

(* C5: every successful scenario generation yields between 3 and 5         *)
(* scenarios.                                                              *)
C5_ThreeToFiveScenarios ==
    (Done("scenarios") /\ resp.success) => Len(resp.data) \in 3..5

(* C6: for a forecast request with a baseScenario and a non-empty          *)
(* variations array, whatever error is raised while processing a variation, *)
(* the route responds success:true with a forecast for every variation,    *)
(* never 500.                                                              *)
C6_ForecastNever500 ==
    (Done("forecast") /\ req.bodyOk /\ req.hasBase /\ req.hasVariations
        /\ Len(req.variations) > 0)
        => /\ resp.status # 500
           /\ resp.success
           /\ Len(resp.data) = Len(req.variations)

(* C7 as stated: when a remote BigQuery call made while serving            *)
(* POST /api/scenarios is rate-limited (code 429), the route responds with *)
(* HTTP status 429.                                                        *)
C7_RateLimitGives429 ==
    (Done("scenarios") /\ 429 \in remoteErrs) => resp.status = 429

(* C7 amended: a rate-limited (or otherwise failed) remote BigQuery call   *)
(* made while serving POST /api/scenarios never reaches the catch of the   *)
(* route: the route never responds 429, and it responds 200 with           *)
(* success:true whenever a remote call failed.                             *)
C7_RateLimitAbsorbed ==
    Done("scenarios") =>
        /\ resp.status # 429
        /\ remoteErrs # {} => resp.status = 200 /\ resp.success

C7_Witness ==
    /\ Done("scenarios")
    /\ textClass = "threw"
    /\ remoteErrs = {429}
    /\ resp.status = 200

(* C8: when generateText, generateTable or generateEmbedding is invoked a  *)
(* second time with the same arguments, no remote statement is sent.       *)
C8_RepeatedCallSendsNothing ==
    lastCall.repeated => lastCall.sent = <<>>

(* C9: POST /api/forecast answers 400 with success:false and the error     *)
(* 'Base scenario and variations are required' when baseScenario is        *)
(* missing, variations is missing or variations is empty; no remote AI     *)
(* call is made and no forecast is generated.                              *)
C9_ForecastValidation ==
    (Done("forecast") /\ req.bodyOk
        /\ (~req.hasBase \/ ~req.hasVariations \/ Len(req.variations) = 0))
        => /\ resp = Resp(400, FALSE, "Base scenario and variations are required", <<>>)
           /\ invoked = {}
           /\ remoteErrs = {}
           /\ forecasts = <<>>

C9_Witness ==
    /\ Done("forecast")
    /\ req.hasBase /\ req.hasVariations /\ Len(req.variations) = 0
    /\ resp.status = 400

(* C10: POST /api/scenarios answers 500 'Environment configuration error'  *)
(* whenever the environment is invalid, whatever the body; it answers 400  *)
(* 'Query and context are required' only when the environment is valid;    *)
(* in both cases generateScenarios is not invoked.                         *)
C10_CheckOrder ==
    Done("scenarios") =>
        /\ ~EnvValid => resp = Resp(500, FALSE, "Environment configuration error", <<>>)
        /\ resp.status = 400 =>
               EnvValid /\ resp.error = "Query and context are required"
        /\ (~EnvValid \/ resp.status = 400) => "generateScenarios" \notin invoked

C10_Witness ==
    /\ Done("scenarios")
    /\ ~EnvValid
    /\ req.bodyOk /\ req.query = ""
    /\ resp.status = 500

(* C11: POST /api/vector-search with situation and industry present and a  *)
(* succeeding embedding call returns at most limit cases (5 when limit is  *)
(* omitted), in non-increasing order of similarity, all of them among the  *)
(* five mock cases, for every numeric limit of the body.                   *)
C11_AtMostLimitSorted ==
    (Done("vector-search") /\ resp.status = 200 /\ LimitOf(req).kind = "number")
        => /\ Len(resp.data) <= LimitOf(req).num
           /\ \A i \in 1..(Len(resp.data) - 1) : resp.data[i] >= resp.data[i + 1]
           /\ Range(resp.data) \subseteq Range(mockSimilarCases)

(* the body that carries the same fields as the query parameters *)
SameFields(q) ==
    [route |-> "vector-search", bodyOk |-> TRUE, situation |-> q.situation,
     industry |-> q.industry, limit |-> IF q.hasLimit THEN Str(q.limit) ELSE Undefined]

(* C12: a GET /api/vector-search without situation or industry answers 400 *)
(* without invoking POST; otherwise, when the embedding call succeeds, its *)
(* data is the data POST answers for a body with the same fields.          *)
C12_GetEqualsPost ==
    (pc = "done" /\ params.present) =>
        IF params.situation = "" \/ params.industry = ""
        THEN resp.status = 400 /\ "POST" \notin invoked
        ELSE resp.status = 200 =>
                 resp.data = VectorRespond(Ok(0, <<>>, {}), LimitOf(SameFields(params))).data

(* C13: a successful POST /api/forecast response has exactly one forecast  *)
(* per variation, in request order: forecasts[i] carries the 0-based index *)
(* i as its variationId and the name, description and parameters of        *)
(* variations[i], and metadata.variationCount is variations.length,        *)
(* whichever callback settled first and whichever AI call failed.          *)
C13_ForecastsInRequestOrder ==
    (Done("forecast") /\ resp.success) =>
        /\ Len(resp.data) = Len(req.variations)
        /\ \A i \in 1..Len(resp.data) :
               /\ resp.data[i].variationId = i - 1
               /\ resp.data[i].variationName = req.variations[i].name
               /\ resp.data[i].description = req.variations[i].description
               /\ resp.data[i].parameters = req.variations[i].parameters
        /\ metadata.variationCount = Len(req.variations)

(* the second variation settled first, after its AI call had failed *)
C13_Witness ==
    /\ Done("forecast") /\ resp.success
    /\ Len(req.variations) = 2
    /\ req.variations[1].name # req.variations[2].name
    /\ forecasts[2].rank = 1 /\ forecasts[1].rank = 2
    /\ forecasts[2].aiFailed /\ ~forecasts[1].aiFailed

(* whether the first generated row has a truthy revenue_estimate *)
FirstRowHasRevenue(aiData) ==
    Len(aiData) > 0 /\ aiData[1].kind = "object" /\ aiData[1].revenue_estimate # 0

(* a point with the four blended fields taken from another point *)
WithBlendedFieldsOf(point, other) ==
    [point EXCEPT !.revenue = other.revenue, !.marketShare = other.marketShare,
                  !.customerCount = other.customerCount, !.probability = other.probability,
                  !.valuesFrom = other.valuesFrom]

(* C14: in a successful POST /api/forecast response the AI estimate is     *)
(* blended into a variation's timeline iff the first row generateTable     *)
(* returned has a truthy revenue_estimate; a blended timeline has the      *)
(* points of the synthetic one with only revenue, marketShare,             *)
(* customerCount and probability replaced (month, date, operatingCosts and *)
(* keyEvents are kept); otherwise the synthetic timeline is returned       *)
(* unchanged.                                                              *)
C14_BlendFrame ==
    (Done("forecast") /\ resp.success) =>
        \A i \in 1..Len(forecasts) :
            /\ Len(resp.data[i].timeline) = Len(forecasts[i].trace.synthetic)
            /\ IF FirstRowHasRevenue(forecasts[i].trace.aiData)
               THEN \A k \in 1..Len(resp.data[i].timeline) :
                        /\ resp.data[i].timeline[k].valuesFrom = "ai"
                        /\ WithBlendedFieldsOf(resp.data[i].timeline[k],
                                               forecasts[i].trace.synthetic[k])
                              = forecasts[i].trace.synthetic[k]
               ELSE resp.data[i].timeline = forecasts[i].trace.synthetic

C14_Witness ==
    /\ Done("forecast") /\ resp.success
    /\ FirstRowHasRevenue(forecasts[1].trace.aiData)
    /\ resp.data[1].timeline[2].revenue # forecasts[1].trace.synthetic[2].revenue
    /\ resp.data[1].timeline[2].operatingCosts = forecasts[1].trace.synthetic[2].operatingCosts

(* C15: in every timeline point of every forecast returned by              *)
(* POST /api/forecast, operatingCosts is 72% of the point's revenue,       *)
(* rounded to an integer.                                                  *)
C15_CostsAre72Percent ==
    (Done("forecast") /\ resp.success) =>
        \A i \in 1..Len(resp.data) : \A k \in 1..Len(resp.data[i].timeline) :
            resp.data[i].timeline[k].operatingCosts
                = (resp.data[i].timeline[k].revenue * 72 + 50) \div 100

(* C16: in every timeline point returned by POST /api/forecast marketShare *)
(* is a number of at most 0.3, and in every point of a mock timeline       *)
(* returned by POST /api/scenarios it is a number of at most 0.25.         *)
C16_MarketShareCapped ==
    pc = "done" =>
        \A tl \in Timelines : \A k \in 1..Len(tl) :
            tl[k].valuesFrom # "row" =>
                /\ tl[k].marketShare.kind = "number"
                /\ tl[k].marketShare.num <= (IF req.route = "forecast" THEN 300000 ELSE 250000)

(* the profile the keywords of a name select, written in any case *)
KeywordProfile(name) ==
    IF \E j \in 1..Len(name) : name[j] \in {"SURGE", "Soars", "Resurgence"} THEN "optimistic"
    ELSE IF \E j \in 1..Len(name) : name[j] \in {"limited", "Noise"} THEN "conservative"
    ELSE "realistic"

(* C17: the synthetic timeline of every variation is computed from the     *)
(* growth profile its name selects, case-insensitively: optimistic when    *)
(* the name contains surge or soars (even if it also contains a            *)
(* conservative keyword), else conservative when it contains limited or    *)
(* noise, else realistic; index, description and parameters play no part.  *)
C17_ProfileFromName ==
    (pc = "fc_run" \/ Done("forecast")) =>
        \A i \in 1..Len(forecasts) :
            forecasts[i].state = "fulfilled" =>
                \A k \in 1..Len(forecasts[i].trace.synthetic) :
                    /\ forecasts[i].trace.synthetic[k].profile
                          = KeywordProfile(req.variations[i].name)
                    /\ forecasts[i].trace.synthetic[k].customerCount
                          = Grow(profiles[KeywordProfile(req.variations[i].name)].customerBase,
                                 profiles[KeywordProfile(req.variations[i].name)].customerGrowth,
                                 k - 1)

(* a name with a conservative and an optimistic keyword, in that order *)
C17_Witness ==
    /\ Done("forecast") /\ resp.success
    /\ req.variations[1].name = <<"Noise", "Soars">>
    /\ forecasts[1].trace.synthetic[1].profile = "optimistic"
    /\ forecasts[1].trace.synthetic[1].customerCount = 1200

(* the greatest element of a set of submission numbers, 0 when empty *)
Latest(ids) == IF ids = {} THEN 0 ELSE CHOOSE id \in ids : \A other \in ids : other <= id

(* C18: submissions of the simulator page never overlap: at most one is in *)
(* flight, the send button is disabled while one is, and the scenarios     *)
(* shown are those of the latest submission that succeeded, never those of *)
(* an earlier one.                                                         *)
C18_SubmissionsNeverOverlap ==
    /\ Cardinality(ActiveRuns) <= 1
    /\ ActiveRuns # {} => page.isProcessing /\ page.sendDisabled
    /\ page.scenarios = Latest(page.succeeded)

(* a second submission has succeeded after a first one *)
C18_Witness ==
    /\ page.succeeded = {1, 2}
    /\ page.scenarios = 2
    /\ ActiveRuns = {}

(* C19: the confidence of every scenario that generateScenarios returns is *)
(* an integer between 0 and 100, whatever the remote model put in the      *)
(* confidence field.                                                       *)
C19_ConfidenceIsPercentage ==
    (Done("scenarios") /\ resp.status = 200) =>
        \A i \in 1..Len(resp.data) :
            /\ resp.data[i].confidence.kind = "number"
            /\ resp.data[i].confidence.num \in 0..100

====
